---------------------------- MODULE Spec2Model ----------------------------
(***************************************************************************)
(* smart-log-viewer: the WebSocket fan-out server.                         *)
(*                                                                         *)
(* ConnectionHub.Run (one goroutine) owns the connection map and serves    *)
(* register / unregister / health tick / broadcast from one select.  Each  *)
(* Connection has an outbound goroutine (Send), an inbound goroutine       *)
(* (HandleMessages) and one short-lived delivery goroutine per broadcast.  *)
(* Every method that holds c.mu for its whole body is one atomic step;     *)
(* wire writes and the hub's passes over the map are split at the points   *)
(* where other goroutines can run.                                         *)
(*                                                                         *)
(* Time enters the program only through time.Since(c.lastSent) and the     *)
(* two timers, so the state keeps, per connection, the seconds elapsed     *)
(* since c.lastSent, advanced one ticker period at a time and saturating   *)
(* at MaxIdle.  It is advanced only while the program can still read it    *)
(* before writing c.lastSent again (see IdleObserved).                     *)
(***************************************************************************)
EXTENDS Integers, Sequences, FiniteSets

\* ---------------------------------------------------------------- bounds
\* Connections constructed, envelopes the generator produces, the capacity
\* given to c.channel (100 in NewConnection; WideCap where two envelopes
\* must fit at once), and the value at which the time since c.lastSent
\* saturates (above DeadThreshold).
NumConns == 2
MaxBroadcast == 2
ChannelCap == 1
WideCap == 2
MaxIdle == 12

\* ------------------------------------------------------ program constants
HealthInterval == 2
DeadThreshold == 10
RegisterTimeout == 5

Conns == 1..NumConns
Msgs == 1..MaxBroadcast
NoConn == 0
NoMsg == 0

\* Types of the envelopes a client can send (model.WebSocketMessage.Type);
\* "log" stands for every type HandleMessages does not recognise.
ClientTypes == {"ping", "pong", "pause", "resume", "log"}

VARIABLES
  capacity,           \* cap(c.channel), the same for every connection
  tickPending,        \* healthTicker.C holds a tick (capacity 1)
  count,              \* the generator's count: broadcasts handed to the hub
  connections,        \* h.connections: the keys of the map
  hubPc,              \* position of Run: select | health | SendPing |
                      \* ping | bcast
  hubTodo,            \* map entries the current range loop has not visited
  connectionsToDrop,  \* checkConnectionHealth's local slice
  hubCur,             \* connection whose SendPing the hub is inside
  activeConnections,  \* Run's local slice of the current broadcast
  logEntry,           \* the envelope of the current broadcast
  hPc,                \* HandleWebSocket per connection
  isClosed, isPaused,
  idle,               \* time.Since(c.lastSent), seconds, while IdleObserved
  channel,            \* contents of c.channel
  chanClosed,         \* close(c.channel) has run
  wsClosed,           \* c.ws.Close() has run
  inPc,               \* position of HandleMessages
  sendPc,             \* position of Send
  message,            \* Send's loop variable
  dPc,                \* position of the delivery goroutine of (c, m);
                      \* "none" when it has not started or has returned
  sent,               \* envelopes Send has written to the wire, in order
  live,               \* history: registered and not removed since
  forced,             \* history: force-closed by the current health pass
  closedAtTick,       \* history: members already closed when the pass began
  writeFailed,        \* history: connections whose Send saw a write error
  logCalls,           \* history: per connection, what each sendLog call
                      \* logged: <<envelope, outcome>>, in call order
  takenWith,          \* history: per envelope, the map's keys when Run took it
  takenPaused,        \* history: per envelope, the members then paused
  lastPing            \* history: how the latest SendPing of the current
                      \* health-check pass returned

hubVars == <<connections, hubPc, hubTodo, connectionsToDrop, hubCur,
             activeConnections, logEntry, count>>
connVars == <<isClosed, isPaused, idle, channel, chanClosed, wsClosed>>
taskVars == <<hPc, inPc, sendPc, message, dPc, sent>>
obsVars == <<logCalls, takenWith, takenPaused, lastPing>>
histVars == <<live, forced, closedAtTick, writeFailed, obsVars>>
vars == <<capacity, tickPending, hubVars, connVars, taskVars, histVars>>

\* NewConnectionHub, and no connection constructed yet; NewConnection will
\* give c.channel the capacity cap.
InitCap(cap) ==
  /\ capacity = cap
  /\ tickPending = FALSE
  /\ count = 0
  /\ connections = {}
  /\ hubPc = "select"
  /\ hubTodo = {}
  /\ connectionsToDrop = <<>>
  /\ hubCur = NoConn
  /\ activeConnections = {}
  /\ logEntry = NoMsg
  /\ hPc = [c \in Conns |-> "none"]
  /\ isClosed = [c \in Conns |-> FALSE]
  /\ isPaused = [c \in Conns |-> FALSE]
  /\ idle = [c \in Conns |-> 0]
  /\ channel = [c \in Conns |-> <<>>]
  /\ chanClosed = [c \in Conns |-> FALSE]
  /\ wsClosed = [c \in Conns |-> FALSE]
  /\ inPc = [c \in Conns |-> "none"]
  /\ sendPc = [c \in Conns |-> "none"]
  /\ message = [c \in Conns |-> NoMsg]
  /\ dPc = [c \in Conns |-> [m \in Msgs |-> "none"]]
  /\ sent = [c \in Conns |-> <<>>]
  /\ live = {}
  /\ forced = {}
  /\ closedAtTick = {}
  /\ writeFailed = {}
  /\ logCalls = [c \in Conns |-> <<>>]
  /\ takenWith = [m \in Msgs |-> {}]
  /\ takenPaused = [m \in Msgs |-> {}]
  /\ lastPing = "none"

Init == InitCap(ChannelCap)

\* The state in which the delivery goroutine of envelope m calls
\* shouldDrop() on a registered connection that is closed or not, paused
\* or not, since seconds after its last activity.
InitDrop ==
  \E closed \in BOOLEAN, paused \in BOOLEAN, since \in 0..MaxIdle,
     m \in Msgs :
    /\ capacity = ChannelCap
    /\ tickPending = FALSE
    /\ count = m
    /\ connections = {1}
    /\ hubPc = "select"
    /\ hubTodo = {}
    /\ connectionsToDrop = <<>>
    /\ hubCur = NoConn
    /\ activeConnections = {}
    /\ logEntry = m
    /\ hPc = [c \in Conns |-> IF c = 1 THEN "started" ELSE "none"]
    /\ isClosed = [c \in Conns |-> c = 1 /\ closed]
    /\ isPaused = [c \in Conns |-> c = 1 /\ paused]
    /\ idle = [c \in Conns |-> IF c = 1 THEN since ELSE 0]
    /\ channel = [c \in Conns |-> <<>>]
    /\ chanClosed = [c \in Conns |-> c = 1 /\ closed]
    /\ wsClosed = [c \in Conns |-> FALSE]
    /\ inPc = [c \in Conns |-> IF c = 1 THEN "read" ELSE "none"]
    /\ sendPc = [c \in Conns |-> IF c = 1 THEN "recv" ELSE "none"]
    /\ message = [c \in Conns |-> NoMsg]
    /\ dPc = [c \in Conns |->
               [k \in Msgs |-> IF c = 1 /\ k = m THEN "shouldDrop" ELSE "none"]]
    /\ sent = [c \in Conns |-> <<>>]
    /\ live = {1}
    /\ forced = {}
    /\ closedAtTick = {}
    /\ writeFailed = {}
    /\ logCalls = [c \in Conns |-> <<>>]
    /\ takenWith = [k \in Msgs |-> IF k <= m THEN {1} ELSE {}]
    /\ takenPaused = [k \in Msgs |-> {}]
    /\ lastPing = "none"

\* The state in which the inbound task of a registered connection, paused
\* or not, has read a "pause" or a "resume" since seconds ago and is about
\* to call SetPaused.  The connection is open, or its Send has failed a
\* write and closed it.
InitPause ==
  \E closed \in BOOLEAN, paused \in BOOLEAN, since \in 0..MaxIdle,
     kind \in {"pause", "resume"} :
    /\ capacity = ChannelCap
    /\ tickPending = FALSE
    /\ count = 0
    /\ connections = {1}
    /\ hubPc = "select"
    /\ hubTodo = {}
    /\ connectionsToDrop = <<>>
    /\ hubCur = NoConn
    /\ activeConnections = {}
    /\ logEntry = NoMsg
    /\ hPc = [c \in Conns |-> IF c = 1 THEN "started" ELSE "none"]
    /\ isClosed = [c \in Conns |-> c = 1 /\ closed]
    /\ isPaused = [c \in Conns |-> c = 1 /\ paused]
    /\ idle = [c \in Conns |-> IF c = 1 THEN since ELSE 0]
    /\ channel = [c \in Conns |-> <<>>]
    /\ chanClosed = [c \in Conns |-> c = 1 /\ closed]
    /\ wsClosed = [c \in Conns |-> c = 1 /\ closed]
    /\ inPc = [c \in Conns |-> IF c = 1 THEN kind ELSE "none"]
    /\ sendPc = [c \in Conns |->
                  IF c # 1 THEN "none" ELSE IF closed THEN "done" ELSE "recv"]
    /\ message = [c \in Conns |-> NoMsg]
    /\ dPc = [c \in Conns |-> [k \in Msgs |-> "none"]]
    /\ sent = [c \in Conns |-> <<>>]
    /\ live = {1}
    /\ forced = {}
    /\ closedAtTick = {}
    /\ writeFailed = {}
    /\ logCalls = [c \in Conns |-> <<>>]
    /\ takenWith = [k \in Msgs |-> {}]
    /\ takenPaused = [k \in Msgs |-> {}]
    /\ lastPing = "none"

\* The same program with a buffer that can hold two envelopes at once.
InitWide == InitCap(WideCap)

Min(a, b) == IF a < b THEN a ELSE b

\* ------------------------------------------------------------ Connection

\* c.mu is free for a writer: the only method that keeps c.mu across a
\* blocking call is SendPing (RLock held during ws.WriteJSON).
MuFree(c) == ~(hubPc = "ping" /\ hubCur = c)

\* Mutant of Close: a call on a closed connection clears the flag.
CloseReopens(c) ==
  IF isClosed[c]
    THEN /\ isClosed' = [isClosed EXCEPT ![c] = FALSE]
         /\ UNCHANGED <<channel, chanClosed>>
    ELSE /\ isClosed' = [isClosed EXCEPT ![c] = TRUE]
         /\ IF chanClosed[c]
              THEN UNCHANGED <<channel, chanClosed>>
              ELSE IF channel[c] # <<>>
                THEN /\ channel' = [channel EXCEPT ![c] = Tail(@)]
                     /\ UNCHANGED chanClosed
                ELSE /\ chanClosed' = [chanClosed EXCEPT ![c] = TRUE]
                     /\ UNCHANGED channel

\* Mutant of Close: the early return for a closed connection is missing.
CloseAgain(c) ==
  /\ isClosed' = [isClosed EXCEPT ![c] = TRUE]
  /\ IF chanClosed[c]
       THEN UNCHANGED <<channel, chanClosed>>
       ELSE IF channel[c] # <<>>
         THEN /\ channel' = [channel EXCEPT ![c] = Tail(@)]
              /\ UNCHANGED chanClosed
         ELSE /\ chanClosed' = [chanClosed EXCEPT ![c] = TRUE]
              /\ UNCHANGED channel

\* Mutant of Close: c.isClosed is not set.
CloseLeavesFlag(c) ==
  IF isClosed[c]
    THEN UNCHANGED <<isClosed, channel, chanClosed>>
    ELSE /\ isClosed' = isClosed
         /\ IF chanClosed[c]
              THEN UNCHANGED <<channel, chanClosed>>
              ELSE IF channel[c] # <<>>
                THEN /\ channel' = [channel EXCEPT ![c] = Tail(@)]
                     /\ UNCHANGED chanClosed
                ELSE /\ chanClosed' = [chanClosed EXCEPT ![c] = TRUE]
                     /\ UNCHANGED channel

\* Connection.Close, under c.mu.Lock: the select receives from the channel
\* when it holds an envelope (or is closed) and closes it only otherwise.
Close(c) ==
  IF isClosed[c]
    THEN UNCHANGED <<isClosed, channel, chanClosed>>
    ELSE /\ isClosed' = [isClosed EXCEPT ![c] = TRUE]
         /\ IF chanClosed[c]
              THEN UNCHANGED <<channel, chanClosed>>
              ELSE IF channel[c] # <<>>
                THEN /\ channel' = [channel EXCEPT ![c] = Tail(@)]
                     /\ UNCHANGED chanClosed
                ELSE /\ chanClosed' = [chanClosed EXCEPT ![c] = TRUE]
                     /\ UNCHANGED channel

\* Mutant of shouldDrop: the paused flag is not tested.
shouldDropAnyIdle(c) ==
  \/ isClosed[c]
  \/ idle[c] > DeadThreshold

\* Mutant of shouldDrop: the paused-and-silent case is not tested.
shouldDropClosedOnly(c) == isClosed[c]

\* Connection.shouldDrop
shouldDrop(c) ==
  \/ isClosed[c]
  \/ (isPaused[c] /\ idle[c] > DeadThreshold)

\* Mutant of sendLog: a full buffer has its newest envelope replaced.
sendLogOverwrites(c, m) ==
  IF isClosed[c]
    THEN UNCHANGED <<channel, idle>>
    ELSE IF Len(channel[c]) < capacity
      THEN /\ channel' = [channel EXCEPT ![c] = Append(@, m)]
           /\ idle' = [idle EXCEPT ![c] = 0]
      ELSE /\ channel' = [channel EXCEPT ![c] = [@ EXCEPT ![Len(@)] = m]]
           /\ UNCHANGED idle

\* Mutant of sendLog: the closed flag is not tested.
sendLogIgnoresClosed(c, m) ==
  IF Len(channel[c]) < capacity
    THEN /\ channel' = [channel EXCEPT ![c] = Append(@, m)]
         /\ idle' = [idle EXCEPT ![c] = 0]
    ELSE UNCHANGED <<channel, idle>>

\* Mutant of sendLog: c.lastSent is written in the default branch too.
sendLogStampsFull(c, m) ==
  IF isClosed[c]
    THEN UNCHANGED <<channel, idle>>
    ELSE IF Len(channel[c]) < capacity
      THEN /\ channel' = [channel EXCEPT ![c] = Append(@, m)]
           /\ idle' = [idle EXCEPT ![c] = 0]
      ELSE /\ idle' = [idle EXCEPT ![c] = 0]
           /\ UNCHANGED channel

\* Mutant of sendLog: the envelope is appended whether there is room or not.
sendLogUnbounded(c, m) ==
  IF isClosed[c]
    THEN UNCHANGED <<channel, idle>>
    ELSE /\ channel' = [channel EXCEPT ![c] = Append(@, m)]
         /\ idle' = [idle EXCEPT ![c] = 0]

\* Connection.sendLog, under c.mu.Lock: non-blocking send on c.channel.
sendLog(c, m) ==
  IF isClosed[c]
    THEN UNCHANGED <<channel, idle>>
    ELSE IF Len(channel[c]) < capacity
      THEN /\ channel' = [channel EXCEPT ![c] = Append(@, m)]
           /\ idle' = [idle EXCEPT ![c] = 0]
      ELSE UNCHANGED <<channel, idle>>

\* Which of its three lines a sendLog call logs: "is closed, cannot send",
\* "Successfully sent" or "channel full, skipping".
sendLogOutcome(c) ==
  IF isClosed[c]
    THEN "closed"
    ELSE IF Len(channel[c]) < capacity THEN "sent" ELSE "full"

\* Mutant of SetPaused: the flag is written on a closed connection too.
SetPausedIgnoresClosed(c, paused) ==
  isPaused' = [isPaused EXCEPT ![c] = paused]

\* Connection.SetPaused, under c.mu.Lock
SetPaused(c, paused) ==
  IF isClosed[c]
    THEN UNCHANGED isPaused
    ELSE isPaused' = [isPaused EXCEPT ![c] = paused]

\* ------------------------------------------------------------------ time

\* The readers of the time since c.lastSent: the registration timer (no
\* write of c.lastSent precedes registration), which fires once, and
\* shouldDrop, which reads it only for an open, paused connection.
\* SetPaused(true) is called only right after "pause" has written
\* c.lastSent, so the value an unpaused connection holds is overwritten
\* before shouldDrop can read it.
IdleObserved(c) ==
  \/ (hPc[c] = "registering" /\ idle[c] < RegisterTimeout)
  \/ (~isClosed[c] /\ (isPaused[c] \/ inPc[c] = "pause"))

\* The ticker fires every HealthInterval seconds; an undelivered tick stays
\* in the ticker's channel.
Advance ==
  /\ idle' = [c \in Conns |->
                IF IdleObserved(c)
                  THEN Min(idle[c] + HealthInterval, MaxIdle)
                  ELSE idle[c]]
  /\ tickPending' = TRUE
  /\ UNCHANGED <<capacity, hubVars, isClosed, isPaused, channel, chanClosed,
                 wsClosed, taskVars, histVars>>

\* ------------------------------------------------------- HandleWebSocket

\* upgrader.Upgrade succeeded; NewConnection; the handler enters the select
\* that offers the connection on hub.register.  Connections are numbered in
\* the order they are constructed.
HandlerNew(c) ==
  /\ hPc[c] = "none"
  /\ \A d \in Conns : d < c => hPc[d] # "none"
  /\ hPc' = [hPc EXCEPT ![c] = "registering"]
  /\ idle' = [idle EXCEPT ![c] = 0]
  /\ UNCHANGED <<capacity, tickPending, hubVars, isClosed, isPaused, channel,
                 chanClosed, wsClosed, inPc, sendPc, message, dPc,
                 sent, histVars>>

\* Mutant of HandlerTimeout: the return after connection.Close() is missing
\* and the handler goes on to start the two goroutines.
HandlerTimeoutNoReturn(c) ==
  /\ hPc[c] = "registering"
  /\ idle[c] >= RegisterTimeout
  /\ hPc' = [hPc EXCEPT ![c] = "accepted"]
  /\ Close(c)
  /\ UNCHANGED <<capacity, tickPending, hubVars, isPaused, idle, wsClosed,
                 inPc, sendPc, message, dPc, sent, histVars>>

\* case <-time.After(5 * time.Second): the connection is closed and dropped.
\* Nothing writes c.lastSent before registration, so idle is the time the
\* handler has waited.
HandlerTimeout(c) ==
  /\ hPc[c] = "registering"
  /\ idle[c] >= RegisterTimeout
  /\ hPc' = [hPc EXCEPT ![c] = "timedout"]
  /\ Close(c)
  /\ UNCHANGED <<capacity, tickPending, hubVars, isPaused, idle, wsClosed,
                 inPc, sendPc, message, dPc, sent, histVars>>

\* go connection.HandleMessages(); go connection.Send()
HandlerStart(c) ==
  /\ hPc[c] = "accepted"
  /\ hPc' = [hPc EXCEPT ![c] = "started"]
  /\ inPc' = [inPc EXCEPT ![c] = "read"]
  /\ sendPc' = [sendPc EXCEPT ![c] = "recv"]
  /\ UNCHANGED <<capacity, tickPending, hubVars, connVars, message, dPc, sent,
                 histVars>>

\* ------------------------------------------------------ ConnectionHub.Run

\* h.connections[connection] = true
MapInsert(c) == connections \cup {c}

\* Mutant of MapDelete: the entry is left in the map.
MapDeleteKeeps(c) == connections

\* delete(h.connections, connection)
MapDelete(c) == connections \ {c}

\* case connection := <-h.register
HubRegister(c) ==
  /\ hubPc = "select"
  /\ hPc[c] = "registering"
  /\ connections' = MapInsert(c)
  /\ hPc' = [hPc EXCEPT ![c] = "accepted"]
  /\ live' = live \cup {c}
  /\ UNCHANGED <<capacity, tickPending, hubPc, hubTodo, connectionsToDrop, hubCur,
                 activeConnections, logEntry, count, connVars, inPc, sendPc,
                 message, dPc, sent, forced, closedAtTick, writeFailed,
                 obsVars>>

\* A receiver is parked on h.unregister only while Run waits in its select.
\* The channel is unbuffered (make(chan *Connection)), so a non-blocking
\* send completes only then.
UnregisterReady == hubPc = "select"

\* Mutant of HubUnregister: connection.Close() is missing.
HubUnregisterKeepsOpen(c) ==
  /\ hubPc = "select"
  /\ hPc[c] # "none"
  /\ connections' = MapDelete(c)
  /\ live' = live \ {c}
  /\ UNCHANGED <<capacity, tickPending, hubPc, hubTodo, connectionsToDrop, hubCur,
                 activeConnections, logEntry, count, connVars,
                 taskVars, forced, closedAtTick, writeFailed, obsVars>>

\* case connection := <-h.unregister, the sender being a goroutine other
\* than Run (Run's own sends are the non-blocking ones below).
HubUnregister(c) ==
  /\ hubPc = "select"
  /\ hPc[c] # "none"
  /\ connections' = MapDelete(c)
  /\ Close(c)
  /\ live' = live \ {c}
  /\ UNCHANGED <<capacity, tickPending, hubPc, hubTodo, connectionsToDrop, hubCur,
                 activeConnections, logEntry, count, isPaused, idle,
                 wsClosed, taskVars, forced, closedAtTick,
                 writeFailed, obsVars>>

\* case <-healthTicker.C: checkConnectionHealth starts ranging over the map.
HubTick ==
  /\ hubPc = "select"
  /\ tickPending
  /\ tickPending' = FALSE
  /\ hubPc' = "health"
  /\ hubTodo' = connections
  /\ connectionsToDrop' = <<>>
  /\ forced' = {}
  /\ closedAtTick' = {c \in connections : isClosed[c]}
  /\ lastPing' = "none"
  /\ UNCHANGED <<capacity, connections, hubCur, activeConnections, logEntry,
                 count, connVars, taskVars, live, writeFailed, logCalls,
                 takenWith, takenPaused>>

\* Mutant of HealthVisit: a closed connection is skipped, not deleted.
HealthVisitSkipsClosed(c) ==
  /\ hubPc = "health"
  /\ c \in hubTodo
  /\ hubTodo' = hubTodo \ {c}
  /\ IF isClosed[c]
       THEN UNCHANGED <<connections, live, connectionsToDrop, hubPc, hubCur>>
       ELSE /\ UNCHANGED <<connections, live>>
            /\ IF shouldDrop(c)
                 THEN /\ connectionsToDrop' = Append(connectionsToDrop, c)
                      /\ UNCHANGED <<hubPc, hubCur>>
                 ELSE IF isPaused[c]
                   THEN /\ hubPc' = "SendPing"
                        /\ hubCur' = c
                        /\ UNCHANGED connectionsToDrop
                   ELSE UNCHANGED <<connectionsToDrop, hubPc, hubCur>>
  /\ UNCHANGED <<capacity, tickPending, activeConnections, logEntry, count,
                 connVars, taskVars, forced, closedAtTick, writeFailed,
                 obsVars>>

\* Mutant of HealthVisit: the paused test comes before the drop test.
HealthVisitPingsFirst(c) ==
  /\ hubPc = "health"
  /\ c \in hubTodo
  /\ hubTodo' = hubTodo \ {c}
  /\ IF isClosed[c]
       THEN /\ connections' = MapDelete(c)
            /\ live' = live \ {c}
            /\ UNCHANGED <<connectionsToDrop, hubPc, hubCur>>
       ELSE /\ UNCHANGED <<connections, live>>
            /\ IF isPaused[c]
                 THEN /\ hubPc' = "SendPing"
                      /\ hubCur' = c
                      /\ UNCHANGED connectionsToDrop
                 ELSE IF shouldDrop(c)
                   THEN /\ connectionsToDrop' = Append(connectionsToDrop, c)
                        /\ UNCHANGED <<hubPc, hubCur>>
                   ELSE UNCHANGED <<connectionsToDrop, hubPc, hubCur>>
  /\ UNCHANGED <<capacity, tickPending, activeConnections, logEntry, count,
                 connVars, taskVars, forced, closedAtTick, writeFailed,
                 obsVars>>

\* One iteration of the range loop of checkConnectionHealth (the map's
\* iteration order is unspecified), up to the call of SendPing.
HealthVisit(c) ==
  /\ hubPc = "health"
  /\ c \in hubTodo
  /\ hubTodo' = hubTodo \ {c}
  /\ IF isClosed[c]
       THEN /\ connections' = MapDelete(c)
            /\ live' = live \ {c}
            /\ UNCHANGED <<connectionsToDrop, hubPc, hubCur>>
       ELSE /\ UNCHANGED <<connections, live>>
            /\ IF shouldDrop(c)
                 THEN /\ connectionsToDrop' = Append(connectionsToDrop, c)
                      /\ UNCHANGED <<hubPc, hubCur>>
                 ELSE IF isPaused[c]
                   THEN /\ hubPc' = "SendPing"
                        /\ hubCur' = c
                        /\ UNCHANGED connectionsToDrop
                   ELSE UNCHANGED <<connectionsToDrop, hubPc, hubCur>>
  /\ UNCHANGED <<capacity, tickPending, activeConnections, logEntry, count,
                 connVars, taskVars, forced, closedAtTick, writeFailed,
                 obsVars>>

\* Mutant of PingClosed: SendPing does not test isClosed and writes.
PingClosedWrites ==
  /\ hubPc = "SendPing"
  /\ isClosed[hubCur]
  /\ hubPc' = "ping"
  /\ UNCHANGED <<capacity, tickPending, connections, hubTodo,
                 connectionsToDrop, hubCur, activeConnections, logEntry,
                 count, connVars, taskVars, histVars>>

\* SendPing takes c.mu.RLock and finds the connection closed: it returns
\* an error without writing, and the connection is queued for
\* unregistration.
PingClosed ==
  /\ hubPc = "SendPing"
  /\ isClosed[hubCur]
  /\ hubPc' = "health"
  /\ hubCur' = NoConn
  /\ connectionsToDrop' = Append(connectionsToDrop, hubCur)
  /\ lastPing' = "closed"
  /\ UNCHANGED <<capacity, tickPending, connections, hubTodo,
                 activeConnections, logEntry, count, connVars, taskVars,
                 live, forced, closedAtTick, writeFailed, logCalls,
                 takenWith, takenPaused>>

\* SendPing takes c.mu.RLock, finds the connection open and starts
\* c.ws.WriteJSON(pingMessage); the write is pending in hubPc = "ping".
PingWrite ==
  /\ hubPc = "SendPing"
  /\ ~isClosed[hubCur]
  /\ hubPc' = "ping"
  /\ UNCHANGED <<capacity, tickPending, connections, hubTodo,
                 connectionsToDrop, hubCur, activeConnections, logEntry,
                 count, connVars, taskVars, histVars>>

\* The write succeeds and SendPing returns nil.
PingOk ==
  /\ hubPc = "ping"
  /\ ~wsClosed[hubCur]
  /\ hubPc' = "health"
  /\ hubCur' = NoConn
  /\ lastPing' = "written"
  /\ UNCHANGED <<capacity, tickPending, connections, hubTodo, connectionsToDrop,
                 activeConnections, logEntry, count, connVars, taskVars,
                 live, forced, closedAtTick, writeFailed, logCalls,
                 takenWith, takenPaused>>

\* The write fails and SendPing returns its error: the connection is
\* queued for unregistration.
PingFail ==
  /\ hubPc = "ping"
  /\ hubPc' = "health"
  /\ hubCur' = NoConn
  /\ connectionsToDrop' = Append(connectionsToDrop, hubCur)
  /\ lastPing' = "failed"
  /\ UNCHANGED <<capacity, tickPending, connections, hubTodo, activeConnections,
                 logEntry, count, connVars, taskVars, live, forced,
                 closedAtTick, writeFailed, logCalls, takenWith,
                 takenPaused>>

\* Mutant of HealthDrop: the send on h.unregister has no default branch.
HealthDropBlocks ==
  /\ hubPc = "health"
  /\ hubTodo = {}
  /\ connectionsToDrop # <<>>
  /\ connectionsToDrop' = Tail(connectionsToDrop)
  /\ LET conn == Head(connectionsToDrop) IN
       IF UnregisterReady
         THEN /\ connections' = MapDelete(conn)
              /\ live' = live \ {conn}
              /\ Close(conn)
              /\ UNCHANGED forced
         ELSE FALSE
  /\ UNCHANGED <<capacity, tickPending, hubPc, hubTodo, hubCur, activeConnections,
                 logEntry, count, isPaused, idle, wsClosed,
                 taskVars, closedAtTick, writeFailed, obsVars>>

\* One iteration of the second loop of checkConnectionHealth: the
\* non-blocking send on h.unregister, else conn.Close().
HealthDrop ==
  /\ hubPc = "health"
  /\ hubTodo = {}
  /\ connectionsToDrop # <<>>
  /\ connectionsToDrop' = Tail(connectionsToDrop)
  /\ LET conn == Head(connectionsToDrop) IN
       IF UnregisterReady
         THEN /\ connections' = MapDelete(conn)
              /\ live' = live \ {conn}
              /\ Close(conn)
              /\ UNCHANGED forced
         ELSE /\ Close(conn)
              /\ forced' = forced \cup {conn}
              /\ UNCHANGED <<connections, live>>
  /\ UNCHANGED <<capacity, tickPending, hubPc, hubTodo, hubCur, activeConnections,
                 logEntry, count, isPaused, idle, wsClosed,
                 taskVars, closedAtTick, writeFailed, obsVars>>

\* checkConnectionHealth returns; Run is back at its select.
HealthDone ==
  /\ hubPc = "health"
  /\ hubTodo = {}
  /\ connectionsToDrop = <<>>
  /\ hubPc' = "select"
  /\ forced' = {}
  /\ closedAtTick' = {}
  /\ lastPing' = "none"
  /\ UNCHANGED <<capacity, tickPending, connections, hubTodo, connectionsToDrop,
                 hubCur, activeConnections, logEntry, count, connVars,
                 taskVars, live, writeFailed, logCalls, takenWith,
                 takenPaused>>

\* Mutant of HubBroadcast: the len(h.connections) == 0 test is missing.
HubBroadcastNoEmptyTest(B) ==
  /\ hubPc = "select"
  /\ count < B
  /\ count' = count + 1
  /\ logEntry' = count + 1
  /\ hubPc' = "bcast"
  /\ hubTodo' = connections
  /\ activeConnections' = {}
  /\ takenWith' = [takenWith EXCEPT ![count + 1] = connections]
  /\ takenPaused' = [takenPaused EXCEPT ![count + 1] =
                       {c \in connections : isPaused[c]}]
  /\ UNCHANGED <<capacity, tickPending, connections, connectionsToDrop, hubCur,
                 connVars, taskVars, live, forced, closedAtTick,
                 writeFailed, logCalls, lastPing>>

\* case logEntry := <-h.Broadcast: the generator's next envelope, of at most
\* B.  With an empty map the loop continues at once.
HubBroadcast(B) ==
  /\ hubPc = "select"
  /\ count < B
  /\ count' = count + 1
  /\ logEntry' = count + 1
  /\ IF connections = {}
       THEN UNCHANGED <<hubPc, hubTodo, activeConnections>>
       ELSE /\ hubPc' = "bcast"
            /\ hubTodo' = connections
            /\ activeConnections' = {}
  /\ takenWith' = [takenWith EXCEPT ![count + 1] = connections]
  /\ takenPaused' = [takenPaused EXCEPT ![count + 1] =
                       {c \in connections : isPaused[c]}]
  /\ UNCHANGED <<capacity, tickPending, connections, connectionsToDrop, hubCur,
                 connVars, taskVars, live, forced, closedAtTick,
                 writeFailed, logCalls, lastPing>>

\* Mutant of BroadcastVisit: a closed connection still counts as active.
BroadcastVisitKeepsActive(c) ==
  /\ hubPc = "bcast"
  /\ c \in hubTodo
  /\ hubTodo' = hubTodo \ {c}
  /\ IF isClosed[c]
       THEN /\ ~UnregisterReady
            /\ connections' = MapDelete(c)
            /\ live' = live \ {c}
            /\ Close(c)
            /\ activeConnections' = activeConnections \cup {c}
       ELSE /\ activeConnections' = activeConnections \cup {c}
            /\ UNCHANGED <<connections, live, isClosed, channel, chanClosed>>
  /\ UNCHANGED <<capacity, tickPending, hubPc, connectionsToDrop, hubCur, logEntry,
                 count, isPaused, idle, wsClosed, taskVars, forced,
                 closedAtTick, writeFailed, obsVars>>

\* One iteration of the filtering loop of the broadcast case.  For a closed
\* connection the non-blocking send on h.unregister finds no receiver (Run
\* itself is here, not at its select: UnregisterReady is false), so the
\* default branch deletes and closes it.
BroadcastVisit(c) ==
  /\ hubPc = "bcast"
  /\ c \in hubTodo
  /\ hubTodo' = hubTodo \ {c}
  /\ IF isClosed[c]
       THEN /\ ~UnregisterReady
            /\ connections' = MapDelete(c)
            /\ live' = live \ {c}
            /\ Close(c)
            /\ UNCHANGED activeConnections
       ELSE /\ activeConnections' = activeConnections \cup {c}
            /\ UNCHANGED <<connections, live, isClosed, channel, chanClosed>>
  /\ UNCHANGED <<capacity, tickPending, hubPc, connectionsToDrop, hubCur, logEntry,
                 count, isPaused, idle, wsClosed, taskVars, forced,
                 closedAtTick, writeFailed, obsVars>>

\* The loop that starts one delivery goroutine per active connection.
BroadcastSpawn ==
  /\ hubPc = "bcast"
  /\ hubTodo = {}
  /\ dPc' = [c \in Conns |->
               IF c \in activeConnections
                 THEN [dPc[c] EXCEPT ![logEntry] = "IsPaused"]
                 ELSE dPc[c]]
  /\ hubPc' = "select"
  /\ activeConnections' = {}
  /\ UNCHANGED <<capacity, tickPending, connections, hubTodo, connectionsToDrop,
                 hubCur, logEntry, count, connVars, hPc, inPc, sendPc,
                 message, sent, histVars>>

\* ------------------------------------------- the per-broadcast goroutine

\* go func(c) { if !c.IsPaused() && !c.shouldDrop() { c.sendLog(logEntry) } }
\* Each of the three calls takes c.mu on its own.
DeliverIsPaused(c, m) ==
  /\ dPc[c][m] = "IsPaused"
  /\ dPc' = [dPc EXCEPT ![c][m] = IF isPaused[c] THEN "none" ELSE "shouldDrop"]
  /\ UNCHANGED <<capacity, tickPending, hubVars, connVars, hPc, inPc, sendPc,
                 message, sent, histVars>>

\* Mutant of DeliverShouldDrop: the test of shouldDrop() is inverted.
DeliverShouldDropInverted(c, m) ==
  /\ dPc[c][m] = "shouldDrop"
  /\ dPc' = [dPc EXCEPT ![c][m] = IF shouldDrop(c) THEN "sendLog" ELSE "none"]
  /\ UNCHANGED <<capacity, tickPending, hubVars, connVars, hPc, inPc, sendPc,
                 message, sent, histVars>>

DeliverShouldDrop(c, m) ==
  /\ dPc[c][m] = "shouldDrop"
  /\ dPc' = [dPc EXCEPT ![c][m] = IF shouldDrop(c) THEN "none" ELSE "sendLog"]
  /\ UNCHANGED <<capacity, tickPending, hubVars, connVars, hPc, inPc, sendPc,
                 message, sent, histVars>>

DeliverSendLog(c, m) ==
  /\ dPc[c][m] = "sendLog"
  /\ MuFree(c)
  /\ sendLog(c, m)
  /\ logCalls' = [logCalls EXCEPT ![c] = Append(@, <<m, sendLogOutcome(c)>>)]
  /\ dPc' = [dPc EXCEPT ![c][m] = "none"]
  /\ UNCHANGED <<capacity, tickPending, hubVars, isClosed, isPaused, chanClosed,
                 wsClosed, hPc, inPc, sendPc, message, sent, live, forced,
                 closedAtTick, writeFailed, takenWith, takenPaused,
                 lastPing>>

\* ------------------------------------------------------- Connection.Send

\* Mutant of SendRecv: the newest envelope of the buffer is taken first.
SendRecvNewest(c) ==
  /\ sendPc[c] = "recv"
  /\ IF channel[c] # <<>>
       THEN /\ message' = [message EXCEPT ![c] = channel[c][Len(channel[c])]]
            /\ channel' = [channel EXCEPT ![c] = SubSeq(@, 1, Len(@) - 1)]
            /\ sendPc' = [sendPc EXCEPT ![c] = "write"]
       ELSE /\ chanClosed[c]
            /\ sendPc' = [sendPc EXCEPT ![c] = "defer"]
            /\ UNCHANGED <<message, channel>>
  /\ UNCHANGED <<capacity, tickPending, hubVars, isClosed, isPaused, idle,
                 chanClosed, wsClosed, hPc, inPc, dPc, sent, histVars>>

\* for message := range c.channel: takes the head of the buffer, or leaves
\* the loop when the channel is closed and drained; blocks otherwise.
SendRecv(c) ==
  /\ sendPc[c] = "recv"
  /\ IF channel[c] # <<>>
       THEN /\ message' = [message EXCEPT ![c] = Head(channel[c])]
            /\ channel' = [channel EXCEPT ![c] = Tail(@)]
            /\ sendPc' = [sendPc EXCEPT ![c] = "write"]
       ELSE /\ chanClosed[c]
            /\ sendPc' = [sendPc EXCEPT ![c] = "defer"]
            /\ UNCHANGED <<message, channel>>
  /\ UNCHANGED <<capacity, tickPending, hubVars, isClosed, isPaused, idle,
                 chanClosed, wsClosed, hPc, inPc, dPc, sent, histVars>>

\* c.ws.WriteJSON(message) returns nil.
SendWriteOk(c) ==
  /\ sendPc[c] = "write"
  /\ ~wsClosed[c]
  /\ sent' = [sent EXCEPT ![c] = Append(@, message[c])]
  /\ message' = [message EXCEPT ![c] = NoMsg]
  /\ sendPc' = [sendPc EXCEPT ![c] = "recv"]
  /\ UNCHANGED <<capacity, tickPending, hubVars, connVars, hPc, inPc, dPc,
                 histVars>>

\* c.ws.WriteJSON(message) returns an error: break.
SendWriteFail(c) ==
  /\ sendPc[c] = "write"
  /\ message' = [message EXCEPT ![c] = NoMsg]
  /\ sendPc' = [sendPc EXCEPT ![c] = "defer"]
  /\ writeFailed' = writeFailed \cup {c}
  /\ UNCHANGED <<capacity, tickPending, hubVars, connVars, hPc, inPc, dPc, sent,
                 live, forced, closedAtTick, obsVars>>

\* The deferred function: c.ws.Close() ...
SendWsClose(c) ==
  /\ sendPc[c] = "defer"
  /\ wsClosed' = [wsClosed EXCEPT ![c] = TRUE]
  /\ sendPc' = [sendPc EXCEPT ![c] = "closing"]
  /\ UNCHANGED <<capacity, tickPending, hubVars, isClosed, isPaused, idle,
                 channel, chanClosed, hPc, inPc, message, dPc, sent,
                 histVars>>

\* Mutant of SendClose: the deferred function returns without c.Close().
SendCloseSkips(c) ==
  /\ sendPc[c] = "closing"
  /\ sendPc' = [sendPc EXCEPT ![c] = "done"]
  /\ UNCHANGED <<capacity, tickPending, hubVars, connVars, hPc, inPc, message, dPc,
                 sent, histVars>>

\* ... then c.Close().
SendClose(c) ==
  /\ sendPc[c] = "closing"
  /\ MuFree(c)
  /\ Close(c)
  /\ sendPc' = [sendPc EXCEPT ![c] = "done"]
  /\ UNCHANGED <<capacity, tickPending, hubVars, isPaused, idle, wsClosed,
                 hPc, inPc, message, dPc, sent, histVars>>

\* --------------------------------------------- Connection.HandleMessages

\* Mutant of InRead: c.lastSent is written before the switch.
InReadStampsAll(c, t) ==
  /\ inPc[c] = "read"
  /\ ~wsClosed[c]
  /\ MuFree(c)
  /\ idle' = [idle EXCEPT ![c] = 0]
  /\ inPc' = [inPc EXCEPT ![c] =
                CASE t = "ping" -> "pong"
                  [] t = "pong" -> "gotpong"
                  [] t = "pause" -> "pause"
                  [] t = "resume" -> "resume"
                  [] OTHER -> "default"]
  /\ UNCHANGED <<capacity, tickPending, hubVars, isClosed, isPaused, channel,
                 chanClosed, wsClosed, hPc, sendPc, message, dPc, sent,
                 histVars>>

\* ReadJSON returns an envelope of type t and the switch runs its first
\* critical section (c.lastSent = time.Now() for the four known types),
\* which leaves the task inside the case of t.
InRead(c, t) ==
  /\ inPc[c] = "read"
  /\ ~wsClosed[c]
  /\ MuFree(c)
  /\ idle' = [idle EXCEPT ![c] = IF t = "log" THEN @ ELSE 0]
  /\ inPc' = [inPc EXCEPT ![c] =
                CASE t = "ping" -> "pong"
                  [] t = "pong" -> "gotpong"
                  [] t = "pause" -> "pause"
                  [] t = "resume" -> "resume"
                  [] OTHER -> "default"]
  /\ UNCHANGED <<capacity, tickPending, hubVars, isClosed, isPaused, channel,
                 chanClosed, wsClosed, hPc, sendPc, message, dPc, sent,
                 histVars>>

\* Mutant of InSetPaused: "pause" and "resume" both flip the flag.
InSetPausedToggles(c) ==
  /\ inPc[c] \in {"pause", "resume"}
  /\ MuFree(c)
  /\ SetPaused(c, ~isPaused[c])
  /\ inPc' = [inPc EXCEPT ![c] = "read"]
  /\ UNCHANGED <<capacity, tickPending, hubVars, isClosed, idle, channel,
                 chanClosed, wsClosed, hPc, sendPc, message, dPc, sent,
                 histVars>>

\* case "pause": c.SetPaused(true); case "resume": c.SetPaused(false)
InSetPaused(c) ==
  /\ inPc[c] \in {"pause", "resume"}
  /\ MuFree(c)
  /\ SetPaused(c, inPc[c] = "pause")
  /\ inPc' = [inPc EXCEPT ![c] = "read"]
  /\ UNCHANGED <<capacity, tickPending, hubVars, isClosed, idle, channel,
                 chanClosed, wsClosed, hPc, sendPc, message, dPc, sent,
                 histVars>>

\* case "ping": c.ws.WriteJSON(pongMessage) returns nil.
InPongOk(c) ==
  /\ inPc[c] = "pong"
  /\ ~wsClosed[c]
  /\ inPc' = [inPc EXCEPT ![c] = "read"]
  /\ UNCHANGED <<capacity, tickPending, hubVars, connVars, hPc, sendPc, message,
                 dPc, sent, histVars>>

\* case "ping": c.ws.WriteJSON(pongMessage) returns an error, which is
\* logged ("Failed to send pong").
InPongFail(c) ==
  /\ inPc[c] = "pong"
  /\ inPc' = [inPc EXCEPT ![c] = "pongerr"]
  /\ UNCHANGED <<capacity, tickPending, hubVars, connVars, hPc, sendPc, message,
                 dPc, sent, histVars>>

\* After the log line the switch ends and the for loop reads again.
InPongErrNext(c) ==
  /\ inPc[c] = "pongerr"
  /\ inPc' = [inPc EXCEPT ![c] = "read"]
  /\ UNCHANGED <<capacity, tickPending, hubVars, connVars, hPc, sendPc, message,
                 dPc, sent, histVars>>

\* case "pong": after the critical section only the log line is left.
InPongSeen(c) ==
  /\ inPc[c] = "gotpong"
  /\ inPc' = [inPc EXCEPT ![c] = "read"]
  /\ UNCHANGED <<capacity, tickPending, hubVars, connVars, hPc, sendPc, message,
                 dPc, sent, histVars>>

\* default: the type is logged as unknown and the for loop reads again.
InDefault(c) ==
  /\ inPc[c] = "default"
  /\ inPc' = [inPc EXCEPT ![c] = "read"]
  /\ UNCHANGED <<capacity, tickPending, hubVars, connVars, hPc, sendPc, message,
                 dPc, sent, histVars>>

\* ReadJSON returns an error (the client went away, or the stream was
\* closed by Send's deferred c.ws.Close()): break.
InReadFail(c) ==
  /\ inPc[c] = "read"
  /\ inPc' = [inPc EXCEPT ![c] = "defer"]
  /\ UNCHANGED <<capacity, tickPending, hubVars, connVars, hPc, sendPc, message,
                 dPc, sent, histVars>>

\* Mutant of InClose: the inbound task also deletes its connection from
\* the hub's map.
InCloseDeletes(c) ==
  /\ inPc[c] = "defer"
  /\ MuFree(c)
  /\ Close(c)
  /\ connections' = MapDelete(c)
  /\ live' = live \ {c}
  /\ inPc' = [inPc EXCEPT ![c] = "done"]
  /\ UNCHANGED <<capacity, tickPending, hubPc, hubTodo, connectionsToDrop,
                 hubCur, activeConnections, logEntry, count, isPaused, idle,
                 wsClosed, hPc, sendPc, message, dPc, sent, forced,
                 closedAtTick, writeFailed, obsVars>>

\* The deferred function: c.Close().
InClose(c) ==
  /\ inPc[c] = "defer"
  /\ MuFree(c)
  /\ Close(c)
  /\ inPc' = [inPc EXCEPT ![c] = "done"]
  /\ UNCHANGED <<capacity, tickPending, hubVars, isPaused, idle, wsClosed,
                 hPc, sendPc, message, dPc, sent, histVars>>

\* The steps of the server with the connections of CS, whose clients send
\* nothing, and a generator that produces B envelopes.
Core(CS, B) ==
  \/ Advance
  \/ \E c \in CS : HandlerNew(c)
  \/ \E c \in CS : HandlerTimeout(c)
  \/ \E c \in CS : HandlerStart(c)
  \/ \E c \in CS : HubRegister(c)
  \/ HubTick
  \/ \E c \in CS : HealthVisit(c)
  \/ HealthDone
  \/ HubBroadcast(B)
  \/ \E c \in CS : BroadcastVisit(c)
  \/ BroadcastSpawn
  \/ \E c \in CS, m \in Msgs : DeliverIsPaused(c, m)
  \/ \E c \in CS, m \in Msgs : DeliverShouldDrop(c, m)
  \/ \E c \in CS, m \in Msgs : DeliverSendLog(c, m)
  \/ \E c \in CS : SendRecv(c)
  \/ \E c \in CS : SendWriteOk(c)
  \/ \E c \in CS : SendWriteFail(c)
  \/ \E c \in CS : SendWsClose(c)
  \/ \E c \in CS : SendClose(c)
  \/ \E c \in CS : InReadFail(c)
  \/ \E c \in CS : InClose(c)

\* Clients of CS send envelopes of the types TS (one of them "pause"); what
\* the hub does only for paused connections.
PauseSteps(CS, TS) ==
  \/ \E c \in CS, t \in TS : InRead(c, t)
  \/ \E c \in CS : InSetPaused(c)
  \/ PingClosed
  \/ PingWrite
  \/ PingOk
  \/ PingFail
  \/ HealthDrop

\* The reply to a client's "ping".
PongSteps(CS) ==
  \/ \E c \in CS : InPongOk(c)
  \/ \E c \in CS : InPongFail(c)
  \/ \E c \in CS : InPongErrNext(c)

\* The cases of the switch that end with a log line.
LogSteps(CS) ==
  \/ \E c \in CS : InPongSeen(c)
  \/ \E c \in CS : InDefault(c)

\* The server as main wires it, with one client.
Next ==
  \/ Core({1}, MaxBroadcast)
  \/ PauseSteps({1}, ClientTypes)
  \/ PongSteps({1})
  \/ LogSteps({1})

\* NumConns clients that send nothing, one broadcast, and goroutines of the
\* package that send on h.unregister.
NextHub ==
  \/ Core(Conns, 1)
  \/ \E c \in Conns : HubUnregister(c)

\* One client that sends nothing, with a buffer of WideCap envelopes.
NextOrder == Core({1}, MaxBroadcast)

\* The ticker when only waiting takes time: time passes while the hub loop
\* waits at its select for the next tick, or waits for its write of a ping
\* to connection 2 to return, and no inbound task is in the middle of a
\* message.  A pending tick is taken at once by an idle hub loop, and the
\* ping to connection 1 and its client's pong take no time.
AdvancePong ==
  /\ \/ (hubPc = "select" /\ ~tickPending)
     \/ (hubPc = "ping" /\ hubCur = 2)
  /\ \A c \in Conns : inPc[c] \notin {"pause", "resume"}
  /\ Advance

\* SendPing's write succeeds and the client answers as the front-end does
\* (ws.onmessage, type "ping": ws.send of a "pong"); HandleMessages reads
\* the pong and sets c.lastSent.
PingAnswered ==
  /\ hubPc = "ping"
  /\ ~wsClosed[hubCur]
  /\ inPc[hubCur] = "read"
  /\ hubPc' = "health"
  /\ lastPing' = "written"
  /\ idle' = [idle EXCEPT ![hubCur] = 0]
  /\ hubCur' = NoConn
  /\ UNCHANGED <<capacity, tickPending, connections, hubTodo,
                 connectionsToDrop, activeConnections, logEntry, count,
                 isClosed, isPaused, channel, chanClosed, wsClosed,
                 taskVars, live, forced, closedAtTick, writeFailed, logCalls,
                 takenWith, takenPaused>>

\* Clients that pause and answer every ping, with no wire failure; the
\* write of a ping to connection 2 may take any time.
NextPong ==
  \/ AdvancePong
  \/ \E c \in Conns : HandlerNew(c)
  \/ \E c \in Conns : HubRegister(c)
  \/ \E c \in Conns : HandlerStart(c)
  \/ \E c \in Conns : InRead(c, "pause")
  \/ \E c \in Conns : InSetPaused(c)
  \/ HubTick
  \/ \E c \in Conns : HealthVisit(c)
  \/ PingWrite
  \/ PingAnswered
  \/ HealthDrop
  \/ HealthDone

\* The call of shouldDrop() alone.
NextDrop == \E m \in Msgs : DeliverShouldDrop(1, m)

Spec == Init /\ [][Next]_vars

SpecDrop == InitDrop /\ [][NextDrop]_vars

\* One call of SetPaused from the inbound task.
NextPause == InSetPaused(1)

SpecPause == InitPause /\ [][NextPause]_vars

SpecPong == Init /\ [][NextPong]_vars

SpecOrder == InitWide /\ [][NextOrder]_vars

SpecHub == Init /\ [][NextHub]_vars

\* ---------------------------------------------------------------- fairness

\* Run is a goroutine of its own and is scheduled whenever it can step.
HubProgress ==
  \/ HubTick
  \/ \E c \in Conns : HealthVisit(c)
  \/ PingClosed
  \/ PingWrite
  \/ HealthDrop
  \/ HealthDone
  \/ \E c \in Conns : BroadcastVisit(c)
  \/ BroadcastSpawn

\* Steps of the goroutines of c that wait for nothing but the scheduler and
\* c.mu.  A read fails for sure only once the stream has been closed.
SendProgress(c) == SendRecv(c) \/ SendWsClose(c) \/ SendClose(c)
InProgress(c) ==
  \/ InSetPaused(c)
  \/ InPongErrNext(c)
  \/ InPongSeen(c)
  \/ InDefault(c)
  \/ InClose(c)
  \/ (wsClosed[c] /\ InReadFail(c))
DeliverProgress(c, m) ==
  DeliverIsPaused(c, m) \/ DeliverShouldDrop(c, m) \/ DeliverSendLog(c, m)

\* The select of HandleWebSocket completes once one of its cases is ready:
\* Run receives the connection, or the timer has fired.
HandlerSelects(c) == HubRegister(c) \/ HandlerTimeout(c)

\* A pending wire write returns, with or without an error.
PingReturns == PingOk \/ PingFail
SendWriteReturns(c) == SendWriteOk(c) \/ SendWriteFail(c)
PongReturns(c) == InPongOk(c) \/ InPongFail(c)

Scheduling ==
  /\ WF_vars(Advance)
  /\ WF_vars(HubProgress)
  /\ \A c \in Conns :
       /\ WF_vars(HandlerSelects(c))
       /\ WF_vars(HandlerStart(c))
       /\ WF_vars(SendProgress(c))
       /\ WF_vars(InProgress(c))
       /\ \A m \in Msgs : WF_vars(DeliverProgress(c, m))

WritesReturn ==
  /\ WF_vars(PingReturns)
  /\ \A c \in Conns : WF_vars(SendWriteReturns(c)) /\ WF_vars(PongReturns(c))

\* One client that pings, pauses and resumes, and one broadcast.
NextLive ==
  \/ Core({1}, 1)
  \/ PauseSteps({1}, {"ping", "pause", "resume"})
  \/ PongSteps({1})

\* Fair scheduling, every wire write returning.
FairSpec == Init /\ [][NextLive]_vars /\ Scheduling /\ WritesReturn

\* Fair scheduling, with a client that may stop draining its socket: a
\* wire write on its connection may block for ever.
FairStallSpec == Init /\ [][NextLive]_vars /\ Scheduling


\* ------------------------------------------------------------------ claims

\* C1: the hub's connection set holds exactly the connections whose register
\* has been processed and that no removal (the unregister case, the direct
\* delete of the health check or of the broadcast pass) has taken out since.
\* The set is a Go map's key set, so a member has one entry.
C1_ActiveSetExact ==
  /\ connections = live
  /\ \A c \in connections : hPc[c] \in {"accepted", "started"}

\* A connection was registered and removed again while the other one is
\* still a member.
C1_Witness ==
  /\ hPc[1] = "started"
  /\ 1 \notin connections
  /\ 2 \in connections

\* C2: no broadcast envelope is inserted into a connection's outbound buffer
\* at a moment when the connection's paused flag is true.
C2_NoEnqueueWhilePaused ==
  [][\A c \in Conns :
       Len(channel'[c]) > Len(channel[c]) => ~isPaused[c]]_vars

\* C3: when Close() is called on an open connection, on return the closed
\* flag is true and the outbound buffer channel is closed, whatever the
\* buffer holds.
C3_CloseClosesChannel ==
  [][\A c \in Conns :
       (~isClosed[c] /\ isClosed'[c]) => chanClosed'[c]]_vars

\* C6: when a health-check pass returns, every connection it queued for
\* removal and whose non-blocking send on the unregister channel did not
\* succeed is closed and absent from the connection set.
C6_ForcedDropRemoved ==
  [][(hubPc = "health" /\ hubPc' = "select") =>
       \A c \in forced : isClosed'[c] /\ c \notin connections']_vars

\* C10: once a connection's closed flag is true no task inserts into or
\* receives an envelope from its outbound buffer, Close itself included:
\* no step that ends with the flag set changes the buffer's contents.
C10_NoBufferUseAfterClosed ==
  [][\A c \in Conns : isClosed'[c] => channel'[c] = channel[c]]_vars

\* C4: once a connection whose tasks have been started is closed, by
\* whatever caller, its outbound task (Send) and its inbound task
\* (HandleMessages) both eventually terminate.
C4_CloseUnwindsTasks ==
  \A c \in Conns :
    (isClosed[c] /\ hPc[c] = "started")
      ~> (sendPc[c] = "done" /\ inPc[c] = "done")

\* C5: a connection whose wire write blocks for ever does not stall the
\* hub: the loop keeps returning to its select, where it takes the pending
\* registrations, broadcasts and health ticks.
C5_HubKeepsServing == []<>(hubPc = "select")

\* A paused member whose last activity is more than DeadThreshold ago.
PausedStale(c) ==
  c \in connections /\ isPaused[c] /\ idle[c] > DeadThreshold

\* C7: a registered, paused connection whose last activity stays more than
\* 10 seconds in the past is eventually closed and absent from the hub's
\* connection set.
C7_PausedStaleReaped ==
  \A c \in Conns :
    PausedStale(c)
      ~> ((isClosed[c] /\ c \notin connections)
            \/ ~(isPaused[c] /\ idle[c] > DeadThreshold))

\* A paused connection went stale and the health check closed it (both of
\* its tasks are still running), and a later pass has taken it out.
C7_Witness ==
  /\ isPaused[1] /\ idle[1] > DeadThreshold
  /\ inPc[1] = "read" /\ sendPc[1] = "recv"
  /\ isClosed[1] /\ 1 \notin connections
  /\ 1 \in closedAtTick

\* C8: a connection whose outbound write failed becomes closed (it is
\* closed when Send has returned), and a health-check pass that starts with
\* it closed ends with it out of the connection set.
C8_WriteFailureReaped ==
  /\ \A c \in Conns : (c \in writeFailed) ~> isClosed[c]
  /\ [][\A c \in writeFailed :
          /\ sendPc'[c] = "done" => isClosed'[c]
          /\ (hubPc = "health" /\ hubPc' = "select" /\ c \in closedAtTick)
               => c \notin connections']_vars

\* Send's write failed, the connection was closed, and the health-check
\* pass that found it closed has taken it out of the set.
C8_Witness ==
  /\ 1 \in writeFailed
  /\ sendPc[1] = "done" /\ inPc[1] = "read"
  /\ 1 \in closedAtTick
  /\ isClosed[1]
  /\ 1 \notin connections
  /\ hubPc = "health" /\ hubTodo = {}

\* C9: every failed wire operation leads to the connection becoming closed;
\* here the pong reply the inbound task failed to write.
C9_FailedPongCloses ==
  \A c \in Conns : (inPc[c] = "pongerr") ~> isClosed[c]

\* A step in which sendLog runs on connection c (it logs one line).
sendLogCalled(c) == Len(logCalls'[c]) > Len(logCalls[c])

\* C11: sendLog on an open connection whose buffer holds its full capacity
\* returns at once without adding the envelope: the buffer's contents, the
\* closed flag, the paused flag and the time since the last activity are as
\* before, for that connection and for every other one.
C11_FullBufferDrops ==
  [][\A c \in Conns :
       (sendLogCalled(c) /\ ~isClosed[c] /\ Len(channel[c]) >= capacity)
         => /\ channel' = channel /\ chanClosed' = chanClosed
            /\ isClosed' = isClosed /\ isPaused' = isPaused
            /\ idle' = idle
            /\ \A m \in Msgs : dPc[c][m] = "sendLog" => dPc'[c][m] = "none"
    ]_vars

\* The second envelope found the buffer still holding the first one.
C11_Witness ==
  /\ ~isClosed[1]
  /\ channel[1] = <<1>>
  /\ \E i \in DOMAIN logCalls[1] : logCalls[1][i] = <<2, "full">>

\* C12: sendLog on a connection whose closed flag is true enqueues nothing;
\* the buffer's contents, the paused flag and the time since the last
\* activity are unchanged.
C12_ClosedRejectsEnqueue ==
  [][\A c \in Conns :
       (sendLogCalled(c) /\ isClosed[c])
         => /\ channel'[c] = channel[c]
            /\ isPaused'[c] = isPaused[c]
            /\ idle'[c] = idle[c]
            /\ isClosed'[c]]_vars

\* A delivery goroutine passed shouldDrop while the connection was open and
\* called sendLog after it had been closed.
C12_Witness ==
  /\ isClosed[1]
  /\ \E i \in DOMAIN logCalls[1] : logCalls[1][i][2] = "closed"

\* A step in which some goroutine runs c.Close(): the deferred functions of
\* HandleMessages and Send, the registration timeout, the second loop of
\* the health check, the broadcast pass on a closed member.
CloseCalled(c) ==
  \/ (inPc[c] = "defer" /\ inPc'[c] = "done")
  \/ (sendPc[c] = "closing" /\ sendPc'[c] = "done")
  \/ (hPc[c] = "registering" /\ hPc'[c] = "timedout")
  \/ /\ hubPc = "health" /\ connectionsToDrop # <<>>
     /\ Head(connectionsToDrop) = c
     /\ connectionsToDrop' = Tail(connectionsToDrop)
  \/ (hubPc = "bcast" /\ c \in hubTodo /\ c \notin hubTodo' /\ isClosed[c])

\* C13: Close() on an already closed connection changes nothing: the closed
\* flag, the paused flag, the time since the last activity, the buffer's
\* contents and whether the buffer channel is closed stay as the first
\* Close left them, whichever task makes the second call.
C13_CloseIdempotent ==
  [][\A c \in Conns :
       (CloseCalled(c) /\ isClosed[c])
         => /\ isClosed'[c]
            /\ isPaused'[c] = isPaused[c]
            /\ idle'[c] = idle[c]
            /\ channel'[c] = channel[c]
            /\ chanClosed'[c] = chanClosed[c]]_vars

\* Both tasks of a connection have run their deferred Close(): the later
\* of the two calls found the connection closed.
C13_Witness ==
  /\ inPc[1] = "done" /\ sendPc[1] = "done"
  /\ isClosed[1]

\* Envelope m has reached connection c: a delivery goroutine holds it, or
\* sendLog was called with it, or it is in c's buffer, in Send's hands or
\* on the wire.
Reached(c, m) ==
  \/ dPc[c][m] # "none"
  \/ \E i \in DOMAIN logCalls[c] : logCalls[c][i][1] = m
  \/ \E i \in DOMAIN channel[c] : channel[c][i] = m
  \/ message[c] = m
  \/ \E i \in DOMAIN sent[c] : sent[c][i] = m

\* C14: a broadcast the hub loop takes while its connection set is empty is
\* discarded: the step starts no delivery task, leaves the set empty and
\* the loop at its select, queues nothing, and no connection, registered
\* before or after, ever gets that envelope.
C14_EmptyBroadcastDiscarded ==
  /\ [][(count' = count + 1 /\ connections = {})
          => /\ connections' = {}
             /\ hubPc' = "select"
             /\ dPc' = dPc
             /\ channel' = channel
             /\ hubTodo' = hubTodo
             /\ activeConnections' = activeConnections]_vars
  /\ [](\A m \in Msgs : (m <= count /\ takenWith[m] = {})
           => \A c \in Conns : ~Reached(c, m))

\* The first envelope was taken with no connection registered; the
\* connection registered afterwards got the second envelope only.
C14_Witness ==
  /\ count = 2
  /\ takenWith[1] = {}
  /\ takenWith[2] = {1}
  /\ sent[1] = <<2>>

\* Run has just taken envelope m (its filtering loop has visited nothing
\* yet) and c is a member, open, not paused, with room in its buffer.
JustTaken(c, m) ==
  /\ hubPc = "bcast" /\ logEntry = m
  /\ hubTodo = connections /\ activeConnections = {}
  /\ c \in connections
  /\ ~isClosed[c] /\ ~isPaused[c]
  /\ Len(channel[c]) < capacity

\* The sendLog calls that put m into c's buffer.
Enqueues(c, m) == {i \in DOMAIN logCalls[c] : logCalls[c][i] = <<m, "sent">>}

\* c's buffer got exactly one copy of m and Send has written m to the wire.
Delivered(c, m) ==
  /\ Cardinality(Enqueues(c, m)) = 1
  /\ \E i \in DOMAIN sent[c] : sent[c][i] = m

C16_PauseGatesBroadcast ==
  /\ [](\A c \in Conns, m \in Msgs :
          (m <= count /\ c \in takenPaused[m]) => Enqueues(c, m) = {})
  /\ \A c \in Conns, m \in Msgs :
       JustTaken(c, m)
         ~> \/ Enqueues(c, m) # {}
            \/ isPaused[c] \/ isClosed[c]
            \/ \E i \in DOMAIN logCalls[c] : logCalls[c][i] = <<m, "full">>

C18_UnregisterRemovesAndCloses ==
  [][\A c \in Conns :
       HubUnregister(c)
         => /\ c \notin connections'
            /\ isClosed'[c]
            /\ \A d \in Conns \ {c} :
                 /\ (d \in connections') <=> (d \in connections)
                 /\ isClosed'[d] = isClosed[d]
                 /\ isPaused'[d] = isPaused[d]
                 /\ channel'[d] = channel[d]
                 /\ chanClosed'[d] = chanClosed[d]
            /\ (c \notin connections => connections' = connections)]_vars

\* Connection 1 was taken out by an unregister request (both of its tasks
\* are still running and it did not time out) while connection 2 stays a
\* member.
C18_Witness ==
  /\ hPc[1] = "started" /\ inPc[1] = "read" /\ sendPc[1] = "recv"
  /\ isClosed[1]
  /\ 1 \notin connections
  /\ 2 \in connections /\ ~isClosed[2]

\* The position, among the sendLog calls on c, of the call that enqueued m.
EnqueuePos(c, m) == CHOOSE i \in Enqueues(c, m) : TRUE

\* C19: for each connection, the envelopes its outbound task has written to
\* the wire were all enqueued by sendLog, and any two of them were written
\* in the order in which they were enqueued.
C19_WireOrderIsEnqueueOrder ==
  \A c \in Conns :
    \A i, j \in DOMAIN sent[c] :
      /\ Enqueues(c, sent[c][i]) # {}
      /\ i < j => EnqueuePos(c, sent[c][i]) < EnqueuePos(c, sent[c][j])

\* The delivery goroutines enqueued the second envelope before the first
\* and Send wrote them in that order.
C19_Witness ==
  /\ logCalls[1] = << <<2, "sent">>, <<1, "sent">> >>
  /\ sent[1] = <<2, 1>>

\* C20: the closed state is terminal: once a connection's closed flag is
\* true it is true in every later state, whatever SetPaused, sendLog,
\* SendPing, Close, inbound messages or health checks come afterwards.
C20_ClosedIsTerminal ==
  [][\A c \in Conns : isClosed[c] => isClosed'[c]]_vars

\* On a closed connection sendLog has been called, both tasks have run
\* their Close(), and a health-check pass has visited it.
C20_Witness ==
  /\ isClosed[1]
  /\ \E i \in DOMAIN logCalls[1] : logCalls[1][i][2] = "closed"
  /\ inPc[1] = "done" /\ sendPc[1] = "done"
  /\ 1 \in closedAtTick /\ hubPc = "health" /\ hubTodo = {}

\* C21: every insertion into and deletion from the hub's connection set is
\* a step of the coordination loop (Run with checkConnectionHealth): the
\* step is taken at one of Run's positions and is no step of a delivery,
\* inbound, outbound or handler task (a handler only has its connection
\* received by Run's register case).  Run being one task, two mutations
\* are never concurrent.
C21_OnlyHubMutatesSet ==
  [][connections' # connections
       => /\ hubPc \in {"select", "health", "bcast"}
          /\ dPc' = dPc /\ inPc' = inPc /\ sendPc' = sendPc
          /\ message' = message /\ sent' = sent
          /\ \A c \in Conns :
               hPc'[c] # hPc[c]
                 => /\ hubPc = "select"
                    /\ hPc[c] = "registering" /\ hPc'[c] = "accepted"
                    /\ connections' = connections \cup {c}]_vars

\* Run has inserted both connections and its health check has deleted the
\* first one, found closed, while the tasks of both are running or done.
C21_Witness ==
  /\ hubPc = "health" /\ hubTodo = {}
  /\ closedAtTick = {1}
  /\ 1 \notin connections /\ 2 \in connections
  /\ hPc[1] = "started" /\ hPc[2] = "started"

\* C22: shouldDrop returns true exactly when the connection is closed, or
\* is paused with more than 10 seconds passed since its last activity; an
\* open connection that is not paused is never judged droppable, however
\* long it has been idle; and shouldDrop changes no state.
C22_ShouldDropExact ==
  [][\A c \in Conns, m \in Msgs :
       (dPc[c][m] = "shouldDrop" /\ dPc'[c][m] # "shouldDrop")
         => /\ (dPc'[c][m] = "none")
                 <=> (isClosed[c] \/ (isPaused[c] /\ idle[c] > DeadThreshold))
            /\ (~isClosed[c] /\ ~isPaused[c]) => dPc'[c][m] = "sendLog"
            /\ connVars' = connVars
            /\ connections' = connections]_vars

\* An open, unpaused connection idle for the longest time was judged not
\* droppable: its delivery goroutine goes on to sendLog.
C22_Witness ==
  /\ ~isClosed[1] /\ ~isPaused[1]
  /\ idle[1] = MaxIdle
  /\ \E m \in Msgs : dPc[1][m] = "sendLog"

\* C23: SendPing on a closed connection returns an error (the health check
\* queues the connection) and writes nothing; on an open connection it
\* starts one write of a ping to the wire and returns an error exactly
\* when that write fails; no step of SendPing changes the buffer, the
\* paused flag or the time since the last activity.
C23_SendPingContract ==
  [][/\ (hubPc = "SendPing" /\ hubPc' # "SendPing")
         => /\ isClosed[hubCur]
                 => /\ hubPc' = "health"
                    /\ lastPing' = "closed"
                    /\ connectionsToDrop' = Append(connectionsToDrop, hubCur)
            /\ ~isClosed[hubCur]
                 => /\ hubPc' = "ping" /\ hubCur' = hubCur
                    /\ connectionsToDrop' = connectionsToDrop
            /\ connVars' = connVars
     /\ (hubPc = "ping" /\ hubPc' # "ping")
         => /\ hubPc' = "health"
            /\ lastPing' \in {"written", "failed"}
            /\ lastPing' = "failed"
                 <=> connectionsToDrop' = Append(connectionsToDrop, hubCur)
            /\ lastPing' = "written"
                 <=> connectionsToDrop' = connectionsToDrop
            /\ wsClosed[hubCur] => lastPing' = "failed"
            /\ connVars' = connVars
     /\ hubPc' = "ping" => hubPc \in {"SendPing", "ping"}]_vars

\* The connection was closed between the health check's IsPaused() and
\* SendPing: the call returned its error and the connection was queued.
C23_Witness ==
  /\ lastPing = "closed"
  /\ hubPc = "health"
  /\ isClosed[1]
  /\ connectionsToDrop = <<1>>

\* C24: a registered connection that is paused and whose client answers
\* every ping with a pong before the next health-check tick, with wire
\* reads and writes succeeding, is never closed and never removed from the
\* hub's connection set by the hub, also when ticks are processed late
\* because the hub loop was busy.  Connection 1 is such a connection.
C24_ResponsiveNeverReaped ==
  hPc[1] \in {"accepted", "started"}
    => (1 \in connections /\ ~isClosed[1])

\* C25: when a health-check pass returns, no connection that was already
\* closed when the pass started is still in the hub's connection set.
C25_PassRemovesClosed ==
  [][(hubPc = "health" /\ hubPc' = "select")
       => closedAtTick \cap connections' = {}]_vars

\* The inbound task closed the connection after a read error; the pass
\* that started afterwards has taken it out and is about to return.
C25_Witness ==
  /\ hubPc = "health" /\ hubTodo = {} /\ connectionsToDrop = <<>>
  /\ closedAtTick = {1}
  /\ inPc[1] = "done" /\ 1 \notin writeFailed
  /\ 1 \notin connections

\* The health-check pass visits connection c in this step.
HealthVisits(c) == hubPc = "health" /\ c \in hubTodo /\ c \notin hubTodo'

\* C26: in one health-check pass each member is handled by exactly the
\* first matching case: closed, it is deleted from the set; else with a
\* true drop predicate it is queued for removal and not pinged; else paused
\* it is pinged, once, and queued only when the ping fails.  An open,
\* unpaused connection is neither pinged, queued, closed nor removed, and
\* the visit changes none of its state.
C26_FirstMatchingCase ==
  [][/\ \A c \in Conns : HealthVisits(c) =>
          /\ hubTodo' = hubTodo \ {c}
          /\ connVars' = connVars
          /\ IF isClosed[c]
                THEN /\ connections' = connections \ {c}
                     /\ connectionsToDrop' = connectionsToDrop
                     /\ hubPc' = "health"
                ELSE /\ connections' = connections
                     /\ IF shouldDrop(c)
                          THEN /\ connectionsToDrop' =
                                    Append(connectionsToDrop, c)
                               /\ hubPc' = "health"
                          ELSE /\ connectionsToDrop' = connectionsToDrop
                               /\ IF isPaused[c]
                                    THEN hubPc' = "SendPing" /\ hubCur' = c
                                    ELSE hubPc' = "health"
     /\ (hubPc \in {"SendPing", "ping"} /\ hubPc' # hubPc) =>
          /\ hubCur \notin hubTodo
          /\ hubTodo' = hubTodo
          /\ connections' = connections
          /\ IF lastPing' \in {"closed", "failed"}
                THEN connectionsToDrop' = Append(connectionsToDrop, hubCur)
                ELSE connectionsToDrop' = connectionsToDrop]_vars

\* A pass has visited connection 1, paused and silent for longer than the
\* threshold: it is queued for removal, still open and a member, and no
\* ping was sent in this pass.
C26_Witness ==
  /\ hubPc = "health" /\ hubTodo = {}
  /\ connections = {1}
  /\ connectionsToDrop = <<1>> /\ lastPing = "none"
  /\ ~isClosed[1] /\ isPaused[1] /\ idle[1] > DeadThreshold
\* The broadcast pass visits connection c in this step.
BroadcastVisits(c) == hubPc = "bcast" /\ c \in hubTodo /\ c \notin hubTodo'

\* C27: in the pass over a non-empty set for one broadcast, a member found
\* closed gets no delivery task for that broadcast, and as the non-blocking
\* send on the unregister channel finds no receiver it is deleted from the
\* set and closed within the pass; a member found open gets exactly one
\* delivery task, started when the pass ends.
C27_BroadcastPass ==
  [][/\ \A c \in Conns : BroadcastVisits(c) =>
          /\ c \in takenWith[logEntry]
          /\ dPc' = dPc
          /\ IF isClosed[c]
                THEN /\ activeConnections' = activeConnections
                     /\ connections' = connections \ {c}
                     /\ isClosed'[c]
                ELSE /\ activeConnections' = activeConnections \cup {c}
                     /\ c \notin activeConnections
                     /\ connections' = connections
     /\ (hubPc = "bcast" /\ hubPc' = "select") =>
          \A c \in Conns, m \in Msgs :
            IF c \in activeConnections /\ m = logEntry
              THEN dPc[c][m] = "none" /\ dPc'[c][m] = "IsPaused"
              ELSE dPc'[c][m] = dPc[c][m]
     /\ (hubPc = "bcast" /\ hubPc' = "bcast") =>
          \/ \E c \in Conns : BroadcastVisits(c)
          \/ UNCHANGED <<activeConnections, hubTodo, connections>>]_vars

\* The pass for the second broadcast found connection 1 closed by its
\* inbound task: it is out of the set, and the pass is about to end with no
\* delivery task to start.
C27_Witness ==
  /\ hubPc = "bcast" /\ hubTodo = {} /\ logEntry = 2
  /\ takenWith[2] = {1}
  /\ activeConnections = {}
  /\ 1 \notin connections /\ isClosed[1]
  /\ dPc[1][2] = "none"

\* The inbound task of c returns from its call of SetPaused in this step.
SetPausedReturns(c) == inPc[c] \in {"pause", "resume"} /\ inPc'[c] = "read"

\* C28: SetPaused(p) on a closed connection leaves the paused flag and all
\* other connection state unchanged, for p true and p false; on an open
\* connection it sets the paused flag to p and changes nothing else.
C28_SetPausedFrame ==
  [][\A c \in Conns : SetPausedReturns(c) =>
        /\ isPaused' = IF isClosed[c]
                          THEN isPaused
                          ELSE [isPaused EXCEPT ![c] = (inPc[c] = "pause")]
        /\ UNCHANGED <<isClosed, idle, channel, chanClosed, wsClosed>>
        /\ UNCHANGED <<hubVars, sendPc, dPc, sent>>]_vars

\* SetPaused has returned on a closed connection whose flag is set and
\* whose last activity is long ago.
C28_Witness ==
  /\ isClosed[1] /\ isPaused[1]
  /\ inPc[1] = "read"
  /\ idle[1] = MaxIdle

\* The inbound task of c reads an envelope of one of the four known types
\* in this step, and one it does not know.
ReadsKnown(c) ==
  inPc[c] = "read" /\ inPc'[c] \in {"pong", "gotpong", "pause", "resume"}
ReadsUnknown(c) == inPc[c] = "read" /\ inPc'[c] = "default"

\* C29: on an open connection the inbound task's processing of a "pause"
\* leaves it paused and of a "resume" leaves it unpaused, whatever the flag
\* was before; "ping", "pong", "pause" and "resume" each set the time of the
\* last activity to now; and a "ping" is followed by one write of a pong,
\* whether the connection is paused or not.
C29_InboundMessages ==
  [][\A c \in Conns :
       /\ ReadsKnown(c) =>
            /\ idle'[c] = 0
            /\ UNCHANGED <<isClosed, isPaused, channel, chanClosed, wsClosed>>
       /\ (SetPausedReturns(c) /\ ~isClosed[c]) =>
            isPaused'[c] = (inPc[c] = "pause")
       /\ (inPc[c] = "pong" /\ inPc'[c] # "pong") =>
            /\ inPc'[c] \in {"read", "pongerr"}
            /\ inPc'[c] = "read" => ~wsClosed[c]
       /\ (inPc[c] = "pongerr" /\ inPc'[c] # "pongerr") => inPc'[c] = "read"
       /\ (inPc[c] = "gotpong" /\ inPc'[c] # "gotpong") => inPc'[c] = "read"]_vars

\* A paused, open connection whose inbound task has read a "ping": the
\* time of the last activity is now and the task is in its write of the
\* pong, while the health check has found the connection in the set.
C29_Witness ==
  /\ ~isClosed[1] /\ isPaused[1]
  /\ inPc[1] = "pong" /\ idle[1] = 0
  /\ hubPc = "health" /\ hubTodo = {1}

\* C30: an envelope whose type is none of ping, pong, pause and resume
\* ("log" is one) changes no state of the connection (closed, paused, last
\* activity, buffer), writes nothing to the wire, and the inbound task goes
\* on to read the next envelope.
C30_UnknownTypeIgnored ==
  [][\A c \in Conns :
       /\ ReadsUnknown(c) => UNCHANGED <<connVars, sent, hubVars>>
       /\ (inPc[c] = "default" /\ inPc'[c] # "default") =>
            /\ inPc'[c] = "read"
            /\ UNCHANGED <<connVars, sent, hubVars>>]_vars

\* The inbound task of a paused connection, silent for a while, is in the
\* default case of its switch.
C30_Witness ==
  /\ inPc[1] = "default"
  /\ ~isClosed[1] /\ isPaused[1] /\ idle[1] > 0
  /\ hubPc = "select"

\* C31: while a connection is open the time of its last activity never
\* moves back, across any step of any task: a step either leaves it alone
\* (the time since then stays, or grows as the clock advances) or sets it
\* to now.  A successful sendLog sets it to now; a dropped enqueue and
\* SendPing leave it alone.
C31_LastActivityMonotone ==
  [][\A c \in Conns : ~isClosed[c] =>
       /\ idle'[c] > idle[c] =>
            /\ idle'[c] = Min(idle[c] + HealthInterval, MaxIdle)
            /\ UNCHANGED <<hubVars, taskVars, isClosed, isPaused, channel>>
       /\ idle'[c] < idle[c] => idle'[c] = 0
       /\ sendLogCalled(c) =>
            idle'[c] = IF logCalls'[c][Len(logCalls'[c])][2] = "sent"
                         THEN 0 ELSE idle[c]
       /\ (hubCur = c /\ hubPc \in {"SendPing", "ping"} /\ hubPc' # hubPc) =>
            idle'[c] = idle[c]]_vars

\* The second envelope found the buffer of the open connection full and
\* was dropped, some time after the connection's last activity.
C31_Witness ==
  /\ ~isClosed[1]
  /\ Len(logCalls[1]) = 2
  /\ logCalls[1][2] = <<2, "full">>
  /\ idle[1] > 0

\* C32: every connection that becomes closed, by whatever path (the
\* registration timeout, a failed read, a failed write, a health-check
\* drop, unregister, the broadcast pass), eventually has its underlying
\* stream closed.
C32_ClosedStreamClosed ==
  \A c \in Conns : isClosed[c] ~> wsClosed[c]

\* C33: the hub loop never blocks on a send to its own unregister channel
\* (the hand-offs of the health check and of the broadcast pass are
\* non-blocking), so with wire writes that return every iteration of the
\* loop ends and the loop is back at its select.
C33_HubIterationEnds ==
  \A pc \in {"health", "SendPing", "ping", "bcast"} :
    (hubPc = pc) ~> (hubPc = "select")

\* A health-check pass whose hand-off to h.unregister found no receiver
\* has closed connection 1 in the default branch; its queue is empty and
\* the pass is at its return.
C33_Witness ==
  /\ hubPc = "health" /\ hubTodo = {} /\ connectionsToDrop = <<>>
  /\ forced = {1}
  /\ isClosed[1] /\ 1 \in connections

\* C34: in no interleaving of Close, sendLog and the outbound task is an
\* envelope sent on a connection's buffer channel after the channel was
\* closed, and the channel is closed at most once: it is closed only by the
\* call of Close that sets the closed flag, every later call finds the flag
\* set, and a closed channel stays closed and takes no envelope.
C34_NoSendOrCloseAfterClose ==
  /\ [](\A c \in Conns : chanClosed[c] => isClosed[c])
  /\ [][\A c \in Conns :
          /\ Len(channel'[c]) > Len(channel[c]) =>
               ~chanClosed[c] /\ ~isClosed[c]
          /\ (chanClosed'[c] /\ ~chanClosed[c]) =>
               ~isClosed[c] /\ isClosed'[c] /\ channel[c] = <<>>
          /\ chanClosed[c] => chanClosed'[c]]_vars

\* The inbound task and the outbound task have both returned from Close on
\* connection 1, whose channel is closed, and a sendLog called after that
\* has returned without sending.
C34_Witness ==
  /\ chanClosed[1] /\ channel[1] = <<>>
  /\ inPc[1] = "done" /\ sendPc[1] = "done"
  /\ logCalls[1] # <<>>
  /\ logCalls[1][Len(logCalls[1])][2] = "closed"

\* The tasks that are inside a write to the wire of connection c: Send in
\* its WriteJSON of an envelope, Run in SendPing's WriteJSON of a ping, the
\* inbound task in its WriteJSON of a pong.
WireWriters(c) ==
  (IF sendPc[c] = "write" THEN {"Send"} ELSE {})
    \cup (IF hubPc = "ping" /\ hubCur = c THEN {"SendPing"} ELSE {})
    \cup (IF inPc[c] = "pong" THEN {"HandleMessages"} ELSE {})

\* C35: at most one task is writing to a connection's wire at any moment:
\* Send's write of an envelope, the health check's write of a ping and the
\* inbound task's write of a pong never overlap on one connection.
C35_OneWireWriter ==
  \A c \in Conns : Cardinality(WireWriters(c)) <= 1

\* C36: if the hub loop takes broadcast B1 before broadcast B2 and both are
\* enqueued into the buffer of one connection, B1 is enqueued before B2
\* (and so written to the wire before it).  Envelopes are numbered in the
\* order in which the loop takes them.
C36_BroadcastOrderKept ==
  \A c \in Conns : \A i, j \in 1..Len(logCalls[c]) :
    (i < j /\ logCalls[c][i][2] = "sent" /\ logCalls[c][j][2] = "sent")
      => logCalls[c][i][1] < logCalls[c][j][1]

\* C37: in every reachable state the number of envelopes held in a
\* connection's outbound buffer is at most its fixed capacity, however many
\* broadcasts arrive while the outbound task is blocked.
C37_BufferBounded ==
  \A c \in Conns : Len(channel[c]) <= capacity

\* Send is inside its write of the first envelope and the next broadcast
\* has filled the buffer to its capacity.
C37_Witness ==
  /\ sendPc[1] = "write" /\ message[1] = 1
  /\ channel[1] = <<2>>
  /\ Len(channel[1]) = capacity

=============================================================================
